---- MODULE Spec2Model ----
(***************************************************************************)
(* A model of src/md5.py: the MD5 digest of a buffer or of a file's        *)
(* contents, and the command-line wrapper around it.                       *)
(*                                                                         *)
(* Representation of Python integers.  TLC's integers are 32-bit wide,     *)
(* signed, so a Python int is kept as a pair <<hi, lo>> that stands for    *)
(* hi * 65536 + lo with lo in 0..65535 and hi any (small) integer.  A      *)
(* 32-bit word has hi in 0..65535; the result of Python's ~ on a word has  *)
(* hi in -65536..-1 (two's complement with an infinite sign extension);    *)
(* an unmasked sum of words has hi above 65535.                            *)
(*                                                                         *)
(* A byte string is a sequence of numbers in 0..255.  A length handed to   *)
(* apply_md5_padding is a Python int of any size and is kept as its        *)
(* little-endian base-256 digits.                                          *)
(***************************************************************************)
EXTENDS Integers, Sequences, FiniteSets, TLC

\* ------------------------------------------------------------- bounds

\* Largest buffer or file, in bytes, that a call is given.
MaxLen == 200

\* Longest data handed to apply_md5_padding in a direct call.
MaxPadLen == 130

\* ---------------------------------------------------------- constants

\* The radix of the <<hi, lo>> pair: 0xFFFFFFFF is <<Half - 1, Half - 1>>.
Half == 65536

\* file.read(64), range(0, len(padded_data), 64), len % 64.
ChunkSize == 64

\* while len(padded_data) % 64 != 56
PadResidue == 56

INITIAL_STATE_A == <<26437, 8961>>     \* 0x67452301
INITIAL_STATE_B == <<61389, 43913>>    \* 0xefcdab89
INITIAL_STATE_C == <<39098, 56574>>    \* 0x98badcfe
INITIAL_STATE_D == <<4146, 21622>>     \* 0x10325476

ROTATION_AMOUNTS ==
  << 7, 12, 17, 22, 7, 12, 17, 22, 7, 12, 17, 22, 7, 12, 17, 22,
     5,  9, 14, 20, 5,  9, 14, 20, 5,  9, 14, 20, 5,  9, 14, 20,
     4, 11, 16, 23, 4, 11, 16, 23, 4, 11, 16, 23, 4, 11, 16, 23,
     6, 10, 15, 21, 6, 10, 15, 21, 6, 10, 15, 21, 6, 10, 15, 21 >>

\* int(4294967296 * abs(sin(i + 1))) & 0xFFFFFFFF for i in range(64), each
\* value written as <<value \div 65536, value % 65536>>.
SINE_CONSTANTS ==
  << <<55146, 42104>>, <<59591, 46934>>, <<9248, 28891>>, <<49597, 52974>>,
    <<62844, 4015>>, <<18311, 50730>>, <<43056, 17939>>, <<64838, 38145>>,
    <<27008, 39128>>, <<35652, 63407>>, <<65535, 23473>>, <<35164, 55230>>,
    <<27536, 4386>>, <<64920, 29075>>, <<42617, 17294>>, <<18868, 2081>>,
    <<63006, 9570>>, <<49216, 45888>>, <<9822, 23121>>, <<59830, 51114>>,
    <<54831, 4189>>, <<580, 5203>>, <<55457, 59009>>, <<59347, 64456>>,
    <<8673, 52710>>, <<49975, 2006>>, <<62677, 3463>>, <<17754, 5357>>,
    <<43491, 59653>>, <<64751, 41976>>, <<26479, 729>>, <<36138, 19594>>,
    <<65530, 14658>>, <<34673, 63105>>, <<28061, 24866>>, <<64997, 14348>>,
    <<42174, 59972>>, <<19422, 53161>>, <<63163, 19296>>, <<48831, 48240>>,
    <<10395, 32454>>, <<60065, 10234>>, <<54511, 12421>>, <<1160, 7429>>,
    <<55764, 53305>>, <<59099, 39397>>, <<8098, 31992>>, <<50348, 22117>>,
    <<62505, 8772>>, <<17194, 65431>>, <<43924, 9127>>, <<64659, 41017>>,
    <<25947, 22979>>, <<36620, 52370>>, <<65519, 62589>>, <<34180, 24017>>,
    <<28584, 32335>>, <<65068, 59104>>, <<41729, 17172>>, <<19976, 4513>>,
    <<63315, 32386>>, <<48442, 62005>>, <<10967, 53947>>, <<60294, 54161>> >>

\* ------------------------------------------------- Python int operators

\* Bit k of a number in 0..15.
NibbleBit(x, k) == (x \div (2 ^ k)) % 2

\* &, | and ^ on 4-bit numbers, as tables.
And4 ==
  [x \in 0..15 |-> [y \in 0..15 |->
      NibbleBit(x, 0) * NibbleBit(y, 0)
    + 2 * (NibbleBit(x, 1) * NibbleBit(y, 1))
    + 4 * (NibbleBit(x, 2) * NibbleBit(y, 2))
    + 8 * (NibbleBit(x, 3) * NibbleBit(y, 3))]]

Xor4 ==
  [x \in 0..15 |-> [y \in 0..15 |->
      ((NibbleBit(x, 0) + NibbleBit(y, 0)) % 2)
    + 2 * ((NibbleBit(x, 1) + NibbleBit(y, 1)) % 2)
    + 4 * ((NibbleBit(x, 2) + NibbleBit(y, 2)) % 2)
    + 8 * ((NibbleBit(x, 3) + NibbleBit(y, 3)) % 2)]]

\* &, | and ^ on numbers in 0..65535, nibble by nibble.
And16(x, y) ==
    And4[x % 16][y % 16]
  + 16 * And4[(x \div 16) % 16][(y \div 16) % 16]
  + 256 * And4[(x \div 256) % 16][(y \div 256) % 16]
  + 4096 * And4[x \div 4096][y \div 4096]

Xor16(x, y) ==
    Xor4[x % 16][y % 16]
  + 16 * Xor4[(x \div 16) % 16][(y \div 16) % 16]
  + 256 * Xor4[(x \div 256) % 16][(y \div 256) % 16]
  + 4096 * Xor4[x \div 4096][y \div 4096]

Or16(x, y) == x + y - And16(x, y)

\* The same on the hi part, which is signed: h stands for the 16 bits
\* h % Half under an infinite run of sign bits.
HiAnd(h, k) == And16(h % Half, k % Half) - (IF h < 0 /\ k < 0 THEN Half ELSE 0)
HiOr(h, k)  == Or16(h % Half, k % Half) - (IF h < 0 \/ k < 0 THEN Half ELSE 0)
HiXor(h, k) == Xor16(h % Half, k % Half) - (IF (h < 0) # (k < 0) THEN Half ELSE 0)

\* Python's x & y, x | y, x ^ y, ~x and x + y on ints.
PyAnd(x, y) == <<HiAnd(x[1], y[1]), And16(x[2], y[2])>>
PyOr(x, y)  == <<HiOr(x[1], y[1]), Or16(x[2], y[2])>>
PyXor(x, y) == <<HiXor(x[1], y[1]), Xor16(x[2], y[2])>>
PyNot(x)    == <<(0 - x[1]) - 1, (Half - 1) - x[2]>>
PyAdd(x, y) == <<x[1] + y[1] + ((x[2] + y[2]) \div Half), (x[2] + y[2]) % Half>>

\* x & 0xFFFFFFFF
Mask32(x) == <<x[1] % Half, x[2]>>

\* Whether a Python int is in 0..2^32-1.
IsU32(x) == x[1] >= 0 /\ x[1] < Half /\ x[2] >= 0 /\ x[2] < Half

\* (value << shift_amount) & 0xFFFFFFFF: the low 32 bits of the left shift,
\* for shift_amount in 1..31 and value >= 0.
ShiftLeftLow32(value, s) ==
  IF s < 16
    THEN <<((value[1] % (2 ^ (16 - s))) * (2 ^ s)) + (value[2] \div (2 ^ (16 - s))),
           (value[2] % (2 ^ (16 - s))) * (2 ^ s)>>
    ELSE <<(value[2] % (2 ^ (32 - s))) * (2 ^ (s - 16)), 0>>

\* value >> n for n in 1..31 and value >= 0.
ShiftRight(value, n) ==
  IF n < 16
    THEN <<value[1] \div (2 ^ n),
           ((value[1] % (2 ^ n)) * (2 ^ (16 - n))) + (value[2] \div (2 ^ n))>>
    ELSE <<0, value[1] \div (2 ^ (n - 16))>>

left_rotate(value, shift_amount) ==
  Mask32(PyOr(ShiftLeftLow32(value, shift_amount),
              ShiftRight(value, 32 - shift_amount)))

\* ------------------------------------------------------ the compressor

\* struct.unpack('<16I', chunk)[g], g in 0..15.
message_schedule(chunk, g) ==
  <<chunk[4 * g + 4] * 256 + chunk[4 * g + 3],
    chunk[4 * g + 2] * 256 + chunk[4 * g + 1]>>

\* f of round i from the working variables w = <<a, b, c, d>>.
RoundF(i, w) ==
  IF i <= 15 THEN PyOr(PyAnd(w[2], w[3]), PyAnd(PyNot(w[2]), w[4]))
  ELSE IF i <= 31 THEN PyOr(PyAnd(w[4], w[2]), PyAnd(PyNot(w[4]), w[3]))
  ELSE IF i <= 47 THEN PyXor(PyXor(w[2], w[3]), w[4])
  ELSE PyXor(w[3], PyOr(w[2], PyNot(w[4])))

\* RoundG with the second and third branches exchanged.
RoundG_swapped(i) ==
  IF i <= 15 THEN i
  ELSE IF i <= 31 THEN (3 * i + 5) % 16
  ELSE IF i <= 47 THEN (5 * i + 1) % 16
  ELSE (7 * i) % 16

\* g of round i.
RoundG(i) ==
  IF i <= 15 THEN i
  ELSE IF i <= 31 THEN (5 * i + 1) % 16
  ELSE IF i <= 47 THEN (3 * i + 5) % 16
  ELSE (7 * i) % 16

\* One pass of the for loop: the working variables after round i.  The
\* second statement is a function of temp, applied to the value of the first.
RoundStep(i, w, chunk) ==
  LET rotate_and_mix[temp \in Seq(Int)] ==
        <<w[4],
          Mask32(PyAdd(w[2], left_rotate(temp, ROTATION_AMOUNTS[i + 1]))),
          w[2],
          w[3]>>
  IN rotate_and_mix[Mask32(PyAdd(PyAdd(PyAdd(w[1], RoundF(i, w)),
                                       message_schedule(chunk, RoundG(i))),
                                 SINE_CONSTANTS[i + 1]))]

\* The for loop: pass[i, stop, w] is the working variables <<a, b, c, d>>
\* after rounds i..stop-1, from their value w before round i.  The 64 rounds
\* are the four branches of the if statement, 16 rounds each, in order.
Rounds(st, chunk) ==
  LET pass[i \in 0..64, stop \in 0..64, w \in Seq(Seq(Int))] ==
        IF i = stop THEN w ELSE pass[i + 1, stop, RoundStep(i, w, chunk)]
  IN pass[48, 64, pass[32, 48, pass[16, 32, pass[0, 16, st]]]]

\* FeedForward without the & 0xFFFFFFFF.
FeedForward_unmasked(st, w) ==
  <<PyAdd(st[1], w[1]), PyAdd(st[2], w[2]),
    PyAdd(st[3], w[3]), PyAdd(st[4], w[4])>>

\* The return statement: incoming state plus working variables, masked.
FeedForward(st, w) ==
  <<Mask32(PyAdd(st[1], w[1])), Mask32(PyAdd(st[2], w[2])),
    Mask32(PyAdd(st[3], w[3])), Mask32(PyAdd(st[4], w[4]))>>

\* process_md5_chunk returning the working variables alone.
process_md5_chunk_overwrite(chunk, st) == Rounds(st, chunk)

process_md5_chunk(chunk, st) == FeedForward(st, Rounds(st, chunk))

\* ------------------------------------------------------------ padding

\* A Python int n in 0..2^31-1 as little-endian base-256 digits.
IntDigits(n) ==
  <<n % 256, (n \div 256) % 256, (n \div 65536) % 256, n \div 16777216>>

\* digits * m + carry, for a small m, as little-endian base-256 digits.
RECURSIVE TimesSmall(_, _, _)
TimesSmall(digits, m, carry) ==
  IF digits = <<>>
    THEN (IF carry = 0 THEN <<>> ELSE <<carry>>)
    ELSE <<(Head(digits) * m + carry) % 256>>
         \o TimesSmall(Tail(digits), m, (Head(digits) * m + carry) \div 256)

\* Whether struct.pack('<Q', v) accepts v: 0 <= v < 2^64.
FitsQ(digits) == \A k \in 1..Len(digits) : k > 8 => digits[k] = 0

\* The 8 bytes of struct.pack('<Q', v) for an accepted v.
pack_Q(digits) == [k \in 1..8 |-> IF k <= Len(digits) THEN digits[k] ELSE 0]

\* while len(padded_data) % 64 != 56: padded_data.append(0)
RECURSIVE AppendZeros(_)
AppendZeros(padded_data) ==
  IF Len(padded_data) % ChunkSize # PadResidue
    THEN AppendZeros(Append(padded_data, 0))
    ELSE padded_data

\* The function's outcome: the exception it raises ("none" when it returns)
\* and the bytes it returns.
apply_md5_padding(data, original_length) ==
  LET padded_data == AppendZeros(Append(data, 128))
      bits == TimesSmall(original_length, 8, 0)
  IN IF FitsQ(bits)
       THEN [raised |-> "none", value |-> padded_data \o pack_Q(bits)]
       ELSE [raised |-> "struct.error", value |-> <<>>]

\* ------------------------------------------------------------- digest

\* The 4 bytes of struct.pack('<I', word) for a word in 0..2^32-1.
pack_I(word) ==
  <<word[2] % 256, word[2] \div 256, word[1] % 256, word[1] \div 256>>

HexDigit ==
  <<"0", "1", "2", "3", "4", "5", "6", "7",
    "8", "9", "a", "b", "c", "d", "e", "f">>

\* format(n, 'x'): the hexadecimal digits of n >= 0, no leading zero.
RECURSIVE FormatHex(_)
FormatHex(n) ==
  IF n < 16 THEN <<HexDigit[n + 1]>>
  ELSE Append(FormatHex(n \div 16), HexDigit[(n % 16) + 1])

\* f'{byte:02x}': zero-filled on the left to a width of 2.
Format02x(byte) ==
  IF Len(FormatHex(byte)) < 2 THEN <<"0">> \o FormatHex(byte) ELSE FormatHex(byte)

\* ''.join(f'{byte:02x}' for byte in digest): a str, as its characters.
RECURSIVE JoinHex(_)
JoinHex(digest) ==
  IF digest = <<>> THEN <<>>
  ELSE Format02x(Head(digest)) \o JoinHex(Tail(digest))

\* The function's outcome: struct.pack('<4I', ...) raises struct.error on
\* an argument outside 0..2^32-1.
format_md5(st) ==
  IF IsU32(st[1]) /\ IsU32(st[2]) /\ IsU32(st[3]) /\ IsU32(st[4])
    THEN [raised |-> "none",
          value |-> JoinHex(pack_I(st[1]) \o pack_I(st[2])
                            \o pack_I(st[3]) \o pack_I(st[4]))]
    ELSE [raised |-> "struct.error", value |-> <<>>]

\* ----------------------------------------------------- process_data

\* bytearray(input_data, 'utf-8') for one code point below 0x10000 that is
\* not a surrogate.
Utf8Char(cp) ==
  IF cp < 128 THEN <<cp>>
  ELSE IF cp < 2048 THEN <<192 + (cp \div 64), 128 + (cp % 64)>>
  ELSE <<224 + (cp \div 4096), 128 + ((cp \div 64) % 64), 128 + (cp % 64)>>

RECURSIVE Utf8(_)
Utf8(text) ==
  IF text = <<>> THEN <<>> ELSE Utf8Char(Head(text)) \o Utf8(Tail(text))

\* The buffer branch of process_data on a value [type, value]: the
\* exception it raises ("none" when it returns) and the bytes it returns.
process_data_buffer(v) ==
  IF v.type = "str"
    THEN apply_md5_padding(Utf8(v.value), IntDigits(Len(Utf8(v.value))))
  ELSE IF v.type \notin {"bytes", "bytearray"}
    THEN [raised |-> "MD5Exception", value |-> <<>>]
  ELSE apply_md5_padding(v.value, IntDigits(Len(v.value)))

\* os.path.exists in place of os.path.isfile.
isfile_exists(d) == d.kind # "missing"

\* os.path.isfile(path) on what the path names.
isfile(d) == d.kind = "file"

\* file.read(64) at a position of a file's contents.
file_read(content, pos) ==
  SubSeq(content, pos + 1,
         IF pos + ChunkSize < Len(content) THEN pos + ChunkSize ELSE Len(content))

\* total_length = chunk_length
add_chunk_length_last(total, chunk_length) == chunk_length

\* total_length += chunk_length
add_chunk_length(total, chunk_length) == total + chunk_length

\* padded_data[i:i + 64]
block_at(data, i) == SubSeq(data, i + 1, i + ChunkSize)

\* ------------------------------------------------------------- inputs

\* The bytes of the buffer or file of length n that the calls are given.
Content(n) == [k \in 1..n |-> (k * 37 + n * 11 + 3) % 256]

Str(text) == [type |-> "str", value |-> text]

\* The RFC 1321 test suite, the fox sentence and a two-byte code point.
StrInputs ==
  { Str(<<>>),
    Str(<<97>>),
    Str(<<97, 98, 99>>),
    Str(<<109, 101, 115, 115, 97, 103, 101, 32, 100, 105, 103, 101, 115, 116>>),
    Str(<<97, 98, 99, 100, 101, 102, 103, 104, 105, 106, 107, 108, 109, 110,
          111, 112, 113, 114, 115, 116, 117, 118, 119, 120, 121, 122>>),
    Str(<<65, 66, 67, 68, 69, 70, 71, 72, 73, 74, 75, 76, 77, 78, 79, 80, 81,
          82, 83, 84, 85, 86, 87, 88, 89, 90, 97, 98, 99, 100, 101, 102, 103,
          104, 105, 106, 107, 108, 109, 110, 111, 112, 113, 114, 115, 116, 117,
          118, 119, 120, 121, 122, 48, 49, 50, 51, 52, 53, 54, 55, 56, 57>>),
    Str(<<49, 50, 51, 52, 53, 54, 55, 56, 57, 48, 49, 50, 51, 52, 53, 54, 55,
          56, 57, 48, 49, 50, 51, 52, 53, 54, 55, 56, 57, 48, 49, 50, 51, 52,
          53, 54, 55, 56, 57, 48, 49, 50, 51, 52, 53, 54, 55, 56, 57, 48, 49,
          50, 51, 52, 53, 54, 55, 56, 57, 48, 49, 50, 51, 52, 53, 54, 55, 56,
          57, 48, 49, 50, 51, 52, 53, 54, 55, 56, 57, 48>>),
    Str(<<84, 104, 101, 32, 113, 117, 105, 99, 107, 32, 98, 114, 111, 119, 110,
          32, 102, 111, 120, 32, 106, 117, 109, 112, 115, 32, 111, 118, 101,
          114, 32, 116, 104, 101, 32, 108, 97, 122, 121, 32, 100, 111, 103>>),
    Str(<<233>>) }

BytesInputs ==
  {[type |-> "bytes", value |-> Content(n)] : n \in 0..MaxLen}
  \cup {[type |-> "bytearray", value |-> Content(n)] : n \in {0, 1, ChunkSize}}

\* Values that are neither str nor bytes nor bytearray.
OtherInputs ==
  {[type |-> t, value |-> <<>>] : t \in {"int", "NoneType", "list"}}

\* The path a file-mode call is given: "f.bin".
PathName == Str(<<102, 46, 98, 105, 110>>)

\* What the path names when the call is made.
DiskStates ==
  { [kind |-> "missing", readable |-> FALSE, content |-> <<>>],
    [kind |-> "directory", readable |-> TRUE, content |-> <<>>],
    [kind |-> "file", readable |-> FALSE, content |-> Content(1)] }
  \cup {[kind |-> "file", readable |-> TRUE, content |-> Content(n)] : n \in 0..MaxLen}

NoDisk == [kind |-> "missing", readable |-> FALSE, content |-> <<>>]

\* -------------------------------------------------------------- state

VARIABLES
  pc,            \* where the call stands
  caller,        \* "api": md5 called directly; "main": through main()
  input_data,    \* md5's argument, [type, value]
  is_file,       \* md5's flag
  disk,          \* what the path names
  handle,        \* the file object of read_file_in_chunks: none, open, closed
  offset,        \* the file object's position
  gen_chunk,     \* read_file_in_chunks: chunk
  last_chunk,    \* read_file_in_chunks: last_chunk
  total_length,  \* read_file_in_chunks: total_length
  padded_data,   \* process_data's and md5's padded_data
  state,         \* md5: <<state_a, state_b, state_c, state_d>>
  index,         \* md5: the loop variable i
  result,        \* what md5 returned: the digest's characters
  raised,        \* the exception the call raised, "none" if none
  stdout,        \* what main printed: <<prefix, text>> per line
  exit_status,   \* the process's exit status once pc = "exited"
  log,           \* history: the operations done so far, in order
  pad_args       \* a direct call of apply_md5_padding: [data, original_length]

vars ==
  <<pc, caller, input_data, is_file, disk, handle, offset, gen_chunk,
    last_chunk, total_length, padded_data, state, index, result, raised,
    stdout, exit_status, log, pad_args>>

Event(op, arg) == [op |-> op, arg |-> arg]

INITIAL_STATE ==
  <<INITIAL_STATE_A, INITIAL_STATE_B, INITIAL_STATE_C, INITIAL_STATE_D>>

\* md5's for loop over a padded buffer: the state after every block.
compress_all(data, st) ==
  LET loop[i \in Nat, s \in Seq(Seq(Int))] ==
        IF i >= Len(data) THEN s
        ELSE loop[i + ChunkSize, process_md5_chunk(block_at(data, i), s)]
  IN loop[0, st]

\* md5(v) in buffer mode, as a function of v: the exception it raises
\* ("none" when it returns) and the digest it returns.
md5_buffer(v) ==
  IF process_data_buffer(v).raised # "none"
    THEN process_data_buffer(v)
    ELSE format_md5(compress_all(process_data_buffer(v).value, INITIAL_STATE))

Init ==
  /\ pc = "idle"
  /\ caller = "api"
  /\ input_data = Str(<<>>)
  /\ is_file = FALSE
  /\ disk = NoDisk
  /\ handle = "none"
  /\ offset = 0
  /\ gen_chunk = <<>>
  /\ last_chunk = <<>>
  /\ total_length = 0
  /\ padded_data = <<>>
  /\ state = <<>>
  /\ index = 0
  /\ result = <<>>
  /\ raised = "none"
  /\ stdout = <<>>
  /\ exit_status = 0
  /\ log = <<>>
  /\ pad_args = [data |-> <<>>, original_length |-> <<>>]

\* ------------------------------------------------------------ callers

\* md5(v) with v a str, bytes, bytearray or other value.
CallBuffer ==
  /\ pc = "idle"
  /\ \E v \in StrInputs \cup BytesInputs \cup OtherInputs :
       /\ input_data' = v
       /\ is_file' = FALSE
       /\ caller' = "api"
       /\ disk' = NoDisk
  /\ pc' = "md5"
  /\ UNCHANGED <<handle, offset, gen_chunk, last_chunk, total_length,
                 padded_data, state, index, result, raised, stdout,
                 exit_status, log,
                 pad_args>>

\* md5(path, is_file=True), whatever the path names.
CallFile ==
  /\ pc = "idle"
  /\ \E d \in DiskStates :
       /\ input_data' = PathName
       /\ is_file' = TRUE
       /\ caller' = "api"
       /\ disk' = d
  /\ pc' = "md5"
  /\ UNCHANGED <<handle, offset, gen_chunk, last_chunk, total_length,
                 padded_data, state, index, result, raised, stdout,
                 exit_status, log,
                 pad_args>>

\* main() with a string to hash: args.input is a str, args.file is False.
MainString ==
  /\ pc = "idle"
  /\ \E v \in StrInputs :
       /\ input_data' = v
       /\ is_file' = FALSE
       /\ caller' = "main"
       /\ disk' = NoDisk
  /\ pc' = "md5"
  /\ UNCHANGED <<handle, offset, gen_chunk, last_chunk, total_length,
                 padded_data, state, index, result, raised, stdout,
                 exit_status, log,
                 pad_args>>

\* main() with -f and a path.
MainFile ==
  /\ pc = "idle"
  /\ \E d \in DiskStates :
       /\ input_data' = PathName
       /\ is_file' = TRUE
       /\ caller' = "main"
       /\ disk' = d
  /\ pc' = "md5"
  /\ UNCHANGED <<handle, offset, gen_chunk, last_chunk, total_length,
                 padded_data, state, index, result, raised, stdout,
                 exit_status, log,
                 pad_args>>

\* ---------------------------------------------------------------- md5

\* The initial state values, then the call of process_data.
Md5Start ==
  /\ pc = "md5"
  /\ state' = INITIAL_STATE
  /\ pc' = "process_data"
  /\ UNCHANGED <<caller, input_data, is_file, disk, handle, offset, gen_chunk,
                 last_chunk, total_length, padded_data, index, result, raised,
                 stdout, exit_status, log,
                 pad_args>>

\* process_data, is_file: the os.path.isfile check, before the for loop.
ProcessDataFile ==
  /\ pc = "process_data"
  /\ is_file
  /\ IF isfile(disk)
       THEN /\ padded_data' = <<>>
            /\ pc' = "gen_start"
            /\ raised' = raised
       ELSE /\ raised' = "FileNotFoundError"
            /\ pc' = "raised"
            /\ padded_data' = padded_data
  /\ log' = Append(log, Event("isfile", 0))
  /\ UNCHANGED <<caller, input_data, is_file, disk, handle, offset, gen_chunk,
                 last_chunk, total_length, state, index, result, stdout,
                 exit_status,
                 pad_args>>

\* What open(file_path, 'rb') raises, "none" when it returns a file object.
open_raises(d) ==
  IF d.kind = "missing" THEN "FileNotFoundError"
  ELSE IF d.kind = "directory" THEN "IsADirectoryError"
  ELSE IF ~d.readable THEN "PermissionError"
  ELSE "none"

\* The file object left open.
with_exit_leak == "open"

\* The state of the file object once the with block is left.
with_exit == "closed"

\* read_file_in_chunks up to the with statement: the first next() of the
\* for loop runs the generator from its start.
GenStart ==
  /\ pc = "gen_start"
  /\ total_length' = 0
  /\ last_chunk' = <<>>
  /\ log' = Append(log, Event("open", 0))
  /\ IF open_raises(disk) = "none"
       THEN /\ handle' = "open"
            /\ offset' = 0
            /\ pc' = "gen_read"
            /\ raised' = raised
       ELSE /\ raised' = open_raises(disk)
            /\ pc' = "raised"
            /\ UNCHANGED <<handle, offset>>
  /\ UNCHANGED <<caller, input_data, is_file, disk, gen_chunk, padded_data,
                 state, index, result, stdout, exit_status,
                 pad_args>>

\* One pass of the while loop: a read that returns.  A full chunk is
\* yielded; a short one ends the loop, leaves the with block and the
\* generator yields (last_chunk, total_length).
GenRead ==
  /\ pc = "gen_read"
  /\ handle = "open"
  /\ LET chunk == file_read(disk.content, offset)
     IN /\ gen_chunk' = chunk
        /\ offset' = offset + Len(chunk)
        /\ total_length' = add_chunk_length(total_length, Len(chunk))
        /\ IF Len(chunk) < ChunkSize
             THEN /\ last_chunk' = chunk
                  /\ handle' = with_exit
                  /\ pc' = "consume_last"
                  /\ log' = log \o <<Event("read", Len(chunk)),
                                     Event("close", 0),
                                     Event("yield_last", Len(chunk))>>
             ELSE /\ pc' = "consume_chunk"
                  /\ log' = log \o <<Event("read", Len(chunk)),
                                     Event("yield_chunk", Len(chunk))>>
                  /\ UNCHANGED <<last_chunk, handle>>
  /\ UNCHANGED <<caller, input_data, is_file, disk, padded_data, state, index,
                 result, raised, stdout, exit_status,
                 pad_args>>

\* A read that raises: the with block is left by the exception, which
\* goes through process_data and md5.
GenReadFails ==
  /\ pc = "gen_read"
  /\ handle = "open"
  /\ raised' = "OSError"
  /\ handle' = with_exit
  /\ pc' = "raised"
  /\ log' = log \o <<Event("read_failed", 0), Event("close", 0)>>
  /\ UNCHANGED <<caller, input_data, is_file, disk, offset, gen_chunk,
                 last_chunk, total_length, padded_data, state, index, result,
                 stdout, exit_status,
                 pad_args>>

\* padded_data = piece
extend_replace(data, piece) == piece

\* padded_data += piece
extend(data, piece) == data \o piece

\* The for body on a plain chunk, then next() resumes the generator.
ConsumeChunk ==
  /\ pc = "consume_chunk"
  /\ padded_data' = extend(padded_data, gen_chunk)
  /\ pc' = "gen_read"
  /\ UNCHANGED <<caller, input_data, is_file, disk, handle, offset, gen_chunk,
                 last_chunk, total_length, state, index, result, raised,
                 stdout, exit_status, log,
                 pad_args>>

\* The for body on the final tuple.
ConsumeLast ==
  /\ pc = "consume_last"
  /\ LET r == apply_md5_padding(last_chunk, IntDigits(total_length))
     IN IF r.raised = "none"
          THEN /\ padded_data' = extend(padded_data, r.value)
               /\ pc' = "gen_finish"
               /\ raised' = raised
          ELSE /\ raised' = r.raised
               /\ pc' = "raised"
               /\ padded_data' = padded_data
  /\ log' = Append(log, Event("pad", Len(last_chunk)))
  /\ UNCHANGED <<caller, input_data, is_file, disk, handle, offset, gen_chunk,
                 last_chunk, total_length, state, index, result, stdout,
                 exit_status,
                 pad_args>>

\* next() after the final item: the generator returns, the for loop ends
\* and process_data returns bytes(padded_data) to md5.
GenFinish ==
  /\ pc = "gen_finish"
  /\ index' = 0
  /\ pc' = "md5_loop"
  /\ UNCHANGED <<caller, input_data, is_file, disk, handle, offset, gen_chunk,
                 last_chunk, total_length, padded_data, state, result, raised,
                 stdout, exit_status, log,
                 pad_args>>

\* process_data, not is_file: the type check, then the padding.
ProcessDataBuffer ==
  /\ pc = "process_data"
  /\ ~is_file
  /\ LET r == process_data_buffer(input_data)
     IN IF r.raised = "none"
          THEN /\ padded_data' = r.value
               /\ index' = 0
               /\ pc' = "md5_loop"
               /\ raised' = raised
               /\ log' = Append(log, Event("pad", Len(r.value)))
          ELSE /\ raised' = r.raised
               /\ pc' = "raised"
               /\ UNCHANGED <<padded_data, index>>
               /\ log' = Append(log, Event("raise", 0))
  /\ UNCHANGED <<caller, input_data, is_file, disk, handle, offset, gen_chunk,
                 last_chunk, total_length, state, result, stdout, exit_status,
                 pad_args>>

\* One pass of md5's for loop.
Md5Block ==
  /\ pc = "md5_loop"
  /\ index < Len(padded_data)
  /\ state' = process_md5_chunk(block_at(padded_data, index), state)
  /\ index' = index + ChunkSize
  /\ log' = Append(log, Event("compress", index))
  /\ UNCHANGED <<pc, caller, input_data, is_file, disk, handle, offset,
                 gen_chunk, last_chunk, total_length, padded_data, result,
                 raised, stdout, exit_status,
                 pad_args>>

\* The loop is over: return format_md5(...).
Md5Return ==
  /\ pc = "md5_loop"
  /\ index >= Len(padded_data)
  /\ LET r == format_md5(state)
     IN IF r.raised = "none"
          THEN /\ result' = r.value
               /\ pc' = "returned"
               /\ raised' = raised
          ELSE /\ raised' = r.raised
               /\ pc' = "raised"
               /\ result' = result
  /\ log' = Append(log, Event("format", index))
  /\ UNCHANGED <<caller, input_data, is_file, disk, handle, offset, gen_chunk,
                 last_chunk, total_length, padded_data, state, index, stdout,
                 exit_status,
                 pad_args>>

\* --------------------------------------------------------------- main

\* The exit status of a Python process whose main() returned.
ReturnedFromMain == 0

\* print(f"MD5 Hash: {result}"), then main returns.
MainPrintsHash ==
  /\ caller = "main"
  /\ pc = "returned"
  /\ stdout' = Append(stdout, <<"MD5 Hash: ", result>>)
  /\ exit_status' = ReturnedFromMain
  /\ pc' = "exited"
  /\ UNCHANGED <<caller, input_data, is_file, disk, handle, offset, gen_chunk,
                 last_chunk, total_length, padded_data, state, index, result,
                 raised, log,
                 pad_args>>

\* The three except clauses: each prints, then main returns.
MainCatches ==
  /\ caller = "main"
  /\ pc = "raised"
  /\ stdout' = Append(stdout,
                      <<IF raised \in {"MD5Exception", "FileNotFoundError"}
                          THEN "Error: " ELSE "Unexpected error: ",
                        raised>>)
  /\ exit_status' = ReturnedFromMain
  /\ pc' = "exited"
  /\ UNCHANGED <<caller, input_data, is_file, disk, handle, offset, gen_chunk,
                 last_chunk, total_length, padded_data, state, index, result,
                 raised, log,
                 pad_args>>

Next ==
  \/ CallBuffer
  \/ CallFile
  \/ MainString
  \/ MainFile
  \/ Md5Start
  \/ ProcessDataFile
  \/ GenStart
  \/ GenRead
  \/ GenReadFails
  \/ ConsumeChunk
  \/ ConsumeLast
  \/ GenFinish
  \/ ProcessDataBuffer
  \/ Md5Block
  \/ Md5Return
  \/ MainPrintsHash
  \/ MainCatches

Spec == Init /\ [][Next]_vars

\* ------------------------------------- apply_md5_padding, called alone

\* Lengths as Python ints: 2^29 (whose bit count is 2^32), 2^61 - 1,
\* 2^61, 2^61 + 1, 2^64 - 1 and 2^64.
LargeLengths ==
  { <<0, 0, 0, 32>>,
    <<255, 255, 255, 255, 255, 255, 255, 31>>,
    <<0, 0, 0, 0, 0, 0, 0, 32>>,
    <<1, 0, 0, 0, 0, 0, 0, 32>>,
    <<255, 255, 255, 255, 255, 255, 255, 255>>,
    <<0, 0, 0, 0, 0, 0, 0, 0, 1>> }

\* apply_md5_padding(data, original_length) for any data and any length:
\* the data's own, a whole stream's, or a large one.
PadCall ==
  /\ pc = "idle"
  /\ \E n \in 0..MaxPadLen :
       \E len \in {IntDigits(n), IntDigits(n + ChunkSize), IntDigits(0)}
                  \cup LargeLengths :
         /\ pad_args' = [data |-> Content(n), original_length |-> len]
         /\ padded_data' = apply_md5_padding(Content(n), len).value
         /\ raised' = apply_md5_padding(Content(n), len).raised
  /\ pc' = "pad_done"
  /\ UNCHANGED <<caller, input_data, is_file, disk, handle, offset, gen_chunk,
                 last_chunk, total_length, state, index, result, stdout,
                 exit_status, log>>

PadNext == PadCall

PadSpec == Init /\ [][PadNext]_vars

\* ---------------------------------------------------------- properties

\* The operations logged so far whose name is op, in order.
LogOf(op) == SelectSeq(log, LAMBDA e : e.op = op)

\* A call of md5 has ended: it returned, raised, or main has exited.
Ended == pc \in {"returned", "raised", "exited"}

\* Digit k (from 1, least significant first) of a Python int.
DigitAt(digits, k) == IF k >= 1 /\ k <= Len(digits) THEN digits[k] ELSE 0

\* Byte k of the 8 little-endian bytes of (len * 8) mod 2^64.
BitLengthByte(len, k) ==
  ((DigitAt(len, k) * 8) % 256) + (DigitAt(len, k - 1) \div 32)

\* C3: apply_md5_padding(data, L), for any data and any L: the result
\* starts with data, then one 0x80 byte, then only 0x00 bytes, then the 8
\* little-endian bytes of (L*8) mod 2^64; and when L = len(data) the result
\* length is the smallest multiple of 64 that is >= L + 9.
C3_PaddingPostcondition ==
  pc = "pad_done" =>
    /\ raised = "none"
    /\ Len(padded_data) >= Len(pad_args.data) + 9
    /\ SubSeq(padded_data, 1, Len(pad_args.data)) = pad_args.data
    /\ padded_data[Len(pad_args.data) + 1] = 128
    /\ \A k \in (Len(pad_args.data) + 2)..(Len(padded_data) - 8) :
         padded_data[k] = 0
    /\ \A k \in 1..8 :
         padded_data[Len(padded_data) - 8 + k]
           = BitLengthByte(pad_args.original_length, k)
    /\ pad_args.original_length = IntDigits(Len(pad_args.data)) =>
         /\ Len(padded_data) % 64 = 0
         /\ Len(padded_data) - 64 < Len(pad_args.data) + 9

\* C5: main exits non-zero on every error; only a successful digest ends
\* with exit status zero, and every ending printed a line.
C5_MainExitsNonZeroOnError ==
  pc = "exited" =>
    /\ Len(stdout) = 1
    /\ (exit_status = 0) <=> (raised = "none")

\* C9: in file mode the padded bytes held in memory stay within one
\* 64-byte read plus a padded tail of at most 128 bytes, whatever the size
\* of the file, and no read is issued while a pass-through block already
\* yielded is still uncompressed.
C9_FileNeverMaterialized ==
  is_file =>
    /\ Len(padded_data) <= 64 + 128
    /\ pc = "gen_read" => Len(LogOf("compress")) = Len(LogOf("yield_chunk"))

\* The characters of a str joined into one string.
RECURSIVE Join(_)
Join(chars) == IF chars = <<>> THEN "" ELSE Head(chars) \o Join(Tail(chars))

\* C1: file mode and buffer mode agree: the padded data process_data builds
\* from the chunks of a file whose contents are x is apply_md5_padding(x,
\* len(x)), and md5(path, is_file=True) returns the digest md5(x) returns.
C1_FileModeAgreesWithBufferMode ==
  (is_file /\ raised = "none") =>
    /\ pc \in {"md5_loop", "returned", "exited"} =>
         padded_data
           = apply_md5_padding(disk.content, IntDigits(Len(disk.content))).value
    /\ pc \in {"returned", "exited"} =>
         /\ md5_buffer([type |-> "bytes", value |-> disk.content]).raised = "none"
         /\ result = md5_buffer([type |-> "bytes", value |-> disk.content]).value

\* C1's case: a file of several chunks whose tail pads to two blocks has
\* been digested.
C1_Witness ==
  /\ is_file
  /\ pc = "returned"
  /\ Len(disk.content) > 64
  /\ Len(last_chunk) > 55

\* The reference MD5 digests (RFC 1321's test suite, the fox sentence, a
\* non-ASCII str), by input str.
ReferenceByStr ==
  {
    <<Str(<<>>),
      "d41d8cd98f00b204e9800998ecf8427e">>,
    <<Str(<<97>>),
      "0cc175b9c0f1b6a831c399e269772661">>,
    <<Str(<<97, 98, 99>>),
      "900150983cd24fb0d6963f7d28e17f72">>,
    <<Str(<<109, 101, 115, 115, 97, 103, 101, 32, 100, 105, 103,
                101, 115, 116>>),
      "f96b697d7cb7938d525a2f31aaf161d0">>,
    <<Str(<<97, 98, 99, 100, 101, 102, 103, 104, 105, 106, 107,
                108, 109, 110, 111, 112, 113, 114, 115, 116,
                117, 118, 119, 120, 121, 122>>),
      "c3fcd3d76192e4007dfb496cca67e13b">>,
    <<Str(<<65, 66, 67, 68, 69, 70, 71, 72, 73, 74, 75, 76, 77, 78,
                79, 80, 81, 82, 83, 84, 85, 86, 87, 88, 89,
                90, 97, 98, 99, 100, 101, 102, 103, 104, 105,
                106, 107, 108, 109, 110, 111, 112, 113, 114,
                115, 116, 117, 118, 119, 120, 121, 122, 48,
                49, 50, 51, 52, 53, 54, 55, 56, 57>>),
      "d174ab98d277d9f5a5611c2c9f419d9f">>,
    <<Str(<<49, 50, 51, 52, 53, 54, 55, 56, 57, 48, 49, 50, 51, 52,
                53, 54, 55, 56, 57, 48, 49, 50, 51, 52, 53,
                54, 55, 56, 57, 48, 49, 50, 51, 52, 53, 54,
                55, 56, 57, 48, 49, 50, 51, 52, 53, 54, 55,
                56, 57, 48, 49, 50, 51, 52, 53, 54, 55, 56,
                57, 48, 49, 50, 51, 52, 53, 54, 55, 56, 57,
                48, 49, 50, 51, 52, 53, 54, 55, 56, 57, 48>>),
      "57edf4a22be3c955ac49da2e2107b67a">>,
    <<Str(<<84, 104, 101, 32, 113, 117, 105, 99, 107, 32, 98, 114,
                111, 119, 110, 32, 102, 111, 120, 32, 106,
                117, 109, 112, 115, 32, 111, 118, 101, 114,
                32, 116, 104, 101, 32, 108, 97, 122, 121, 32,
                100, 111, 103>>),
      "9e107d9d372bb6826bd81d3542a419d6">>,
    <<Str(<<233>>),
      "66ddcd97cfdeabb2f6fb8a999b4bc76f">>
  }

\* The reference MD5 digests of Content(n), by n.
ReferenceByLength ==
  {
    <<0, "d41d8cd98f00b204e9800998ecf8427e">>,
    <<1, "eccbc87e4b5ce2fe28308fd9f2a7baf3">>,
    <<55, "4436c249603ed9eea29492b63c7671fe">>,
    <<56, "20f29d19955f3f787583d07a40f5c402">>,
    <<63, "08eb4e6d279a5744f79ef48ff9dd67c8">>,
    <<64, "b2513f22ae66492600185d95d1cf9f2e">>,
    <<65, "3bf0010c2ead945011840fd9b2fa11ec">>,
    <<119, "799d9440545f3bee0f1bdb985c85823e">>,
    <<120, "69745c70315df36bfffc01c27b8737e3">>,
    <<128, "6e5fedc0423f503c84eae485fc2c8080">>,
    <<200, "dcd71aa28939b51d1aff5549003bf15e">>
  }

\* The bytes a call digests: the file's, the bytes object's.
IsMessage(bytes) ==
  \/ is_file /\ disk.content = bytes
  \/ ~is_file /\ input_data.type \in {"bytes", "bytearray"}
     /\ input_data.value = bytes

Logged(ops) == \E k \in 1..Len(log) : log[k].op \in ops

\* C4: an invalid call ends in its named error and never in a digest, and
\* the check comes first: a path that is not an existing regular file gives
\* FileNotFoundError with no open and no read attempted; a value that is
\* neither str nor bytes nor bytearray gives MD5Exception with no padding
\* and no block compressed.
C4_InvalidCallsRaiseFirst ==
  /\ (is_file /\ disk.kind # "file" /\ pc # "idle") =>
       /\ ~Logged({"open", "read", "read_failed", "pad", "compress", "format"})
       /\ handle = "none"
       /\ result = <<>>
       /\ pc # "returned"
       /\ Ended => raised = "FileNotFoundError"
       /\ \A k \in 1..Len(stdout) : stdout[k][1] # "MD5 Hash: "
  /\ (~is_file /\ input_data.type \notin {"str", "bytes", "bytearray"}) =>
       /\ ~Logged({"pad", "compress", "format"})
       /\ padded_data = <<>>
       /\ result = <<>>
       /\ pc # "returned"
       /\ Ended => raised = "MD5Exception"

\* C4's case: file mode on a directory has ended in FileNotFoundError.
C4_Witness ==
  /\ is_file
  /\ disk.kind = "directory"
  /\ pc = "raised"
  /\ raised = "FileNotFoundError"

\* The value of a hexadecimal character, 16 for any other character.
HexValue(c) ==
  IF \E v \in 0..15 : HexDigit[v + 1] = c
    THEN CHOOSE v \in 0..15 : HexDigit[v + 1] = c
    ELSE 16

\* Byte b (0..3, least significant first) of a 32-bit word.
WordByte(word, b) ==
  (IF b < 2 THEN word[2] ELSE word[1]) \div (IF b % 2 = 0 THEN 1 ELSE 256) % 256

\* C6: every state word handed on by the compressor is in 0..2^32-1, and
\* every digest md5 returns is 32 characters of 0-9a-f: the bytes of A, B,
\* C, D in that order, each word least significant byte first, each byte
\* as two digits, high nibble first.
C6_DigestIs32LowercaseHex ==
  /\ pc \in {"md5_loop", "returned"} =>
       \A j \in 1..4 :
         /\ state[j][1] >= 0 /\ state[j][1] <= 65535
         /\ state[j][2] >= 0 /\ state[j][2] <= 65535
  /\ raised # "struct.error"
  /\ pc = "returned" =>
       /\ Len(result) = 32
       /\ \A k \in 1..32 :
            result[k] \in {"0", "1", "2", "3", "4", "5", "6", "7",
                           "8", "9", "a", "b", "c", "d", "e", "f"}
       /\ \A j \in 1..4 : \A b \in 0..3 :
            16 * HexValue(result[8 * (j - 1) + 2 * b + 1])
               + HexValue(result[8 * (j - 1) + 2 * b + 2])
              = WordByte(state[j], b)

\* C6's case: a digest of several blocks with a byte below 16 (a digit
\* pair with a leading zero) has been returned.
C6_Witness ==
  /\ pc = "returned"
  /\ index > 64
  /\ result[1] = "0"

\* C7: the file object of read_file_in_chunks is open only while the
\* generator is inside its with block; it is closed before the final item
\* is consumed; a read that fails closes it and the error leaves md5 with
\* no digest; no call ends with it open.
C7_HandleClosedOnEveryPath ==
  /\ handle = "open" => pc \in {"gen_read", "consume_chunk"}
  /\ pc \in {"consume_last", "gen_finish"} => handle = "closed"
  /\ Ended => handle # "open"
  /\ (Ended /\ Logged({"open"}) /\ raised \notin
        {"FileNotFoundError", "IsADirectoryError", "PermissionError"})
       => handle = "closed" /\ Len(LogOf("close")) = 1
  /\ raised = "OSError" =>
       /\ handle = "closed"
       /\ result = <<>>
       /\ pc \in {"raised", "exited"}
       /\ ~Logged({"format"})

\* C7's case: a read failed after at least one full chunk was read.
C7_Witness ==
  /\ pc = "raised"
  /\ raised = "OSError"
  /\ offset >= 64
  /\ handle = "closed"

\* The lengths the reads returned, in order.
ReadLengths == [k \in 1..Len(LogOf("read")) |-> LogOf("read")[k].arg]

RECURSIVE Sum(_)
Sum(lengths) == IF lengths = <<>> THEN 0 ELSE Head(lengths) + Sum(Tail(lengths))

\* C8: the chunk protocol of file mode.  Reads are issued in order; every
\* read but the last returned 64 bytes and was yielded unchanged; the first
\* read shorter than 64 bytes ends the reading; exactly one final item
\* follows, with a last_chunk of 0..63 bytes (the rest of the file) and a
\* total_length that is the sum of the reads, the file's size; that
\* fragment pads to one block when it has at most 55 bytes, else to two.
C8_ChunkProtocol ==
  is_file =>
    /\ \A k \in 1..Len(ReadLengths) :
         k < Len(ReadLengths) => ReadLengths[k] = 64
    /\ pc \in {"gen_read", "consume_chunk"} =>
         /\ \A k \in 1..Len(ReadLengths) : ReadLengths[k] = 64
         /\ offset = 64 * Len(ReadLengths)
         /\ Len(LogOf("yield_last")) = 0
    /\ pc = "consume_chunk" =>
         /\ gen_chunk = SubSeq(disk.content, offset - 63, offset)
         /\ Len(LogOf("yield_chunk")) = Len(ReadLengths)
         /\ Len(padded_data) = offset - 64
    /\ pc = "gen_read" => padded_data = SubSeq(disk.content, 1, offset)
    /\ pc \in {"consume_last", "gen_finish"} =>
         /\ Len(LogOf("yield_last")) = 1
         /\ log[Len(log) - (IF pc = "consume_last" THEN 0 ELSE 1)].op = "yield_last"
         /\ Len(LogOf("yield_chunk")) = Len(ReadLengths) - 1
         /\ ReadLengths[Len(ReadLengths)] < 64
         /\ Len(last_chunk) \in 0..63
         /\ Len(last_chunk) = Len(disk.content) % 64
         /\ last_chunk = SubSeq(disk.content, Len(disk.content) - Len(last_chunk) + 1,
                                Len(disk.content))
         /\ total_length = Sum(ReadLengths)
         /\ total_length = Len(disk.content)
    /\ pc = "gen_finish" =>
         Len(padded_data) - (total_length - Len(last_chunk))
           = (IF Len(last_chunk) <= 55 THEN 64 ELSE 128)

\* C8's case: a file of exactly two chunks has been read; its final item
\* is an empty last_chunk with total_length 128.
C8_Witness ==
  /\ is_file
  /\ pc = "consume_last"
  /\ last_chunk = <<>>
  /\ total_length = 128

\* x + y modulo 2^32 on 32-bit words.
AddMod32(x, y) ==
  <<(x[1] + y[1] + ((x[2] + y[2]) \div 65536)) % 65536, (x[2] + y[2]) % 65536>>

\* The state is the four fixed initial words until the first block.
StartsAtInitialWords ==
  (\/ pc \in {"process_data", "gen_start", "gen_read", "consume_chunk",
              "consume_last", "gen_finish"}
   \/ pc = "md5_loop" /\ index = 0)
    => state = <<<<26437, 8961>>, <<61389, 43913>>,
                 <<39098, 56574>>, <<4146, 21622>>>>

\* The blocks compressed so far are blocks 0, 1, 2, ... of padded_data, each
\* once, and the loop variable stands at the next one.
BlocksInStreamOrder ==
  /\ \A k \in 1..Len(LogOf("compress")) :
       LogOf("compress")[k].arg = 64 * (k - 1)
  /\ pc = "md5_loop" =>
       /\ index = 64 * Len(LogOf("compress"))
       /\ index <= Len(padded_data)
       /\ ~Logged({"format"})

\* format_md5 is applied once, after the last block, and nothing follows.
FormattedOnceAtTheEnd ==
  /\ Len(LogOf("format")) <= 1
  /\ pc = "returned" =>
       /\ Len(padded_data) > 0
       /\ 64 * Len(LogOf("compress")) = Len(padded_data)
       /\ Len(LogOf("format")) = 1
       /\ log[Len(log)].op = "format"
       /\ \A j \in 1..4 : \A b \in 0..3 :
            16 * HexValue(result[8 * (j - 1) + 2 * b + 1])
               + HexValue(result[8 * (j - 1) + 2 * b + 2])
              = WordByte(state[j], b)

\* A step of the loop replaces all four words by the incoming state plus
\* the working variables of the 64 rounds on the next block, word by word
\* modulo 2^32; no other step after the initialisation changes the state.
ChainStep ==
  /\ (pc = "md5_loop" /\ index < Len(padded_data)) =>
       /\ \A j \in 1..4 :
            state'[j]
              = AddMod32(state[j],
                         Rounds(state, SubSeq(padded_data, index + 1, index + 64))[j])
       /\ index' = index + 64
       /\ padded_data' = padded_data
  /\ (pc \notin {"idle", "md5"} /\ ~(pc = "md5_loop" /\ index < Len(padded_data)))
       => state' = state

\* C10: block chaining in md5.  The state starts at the four fixed initial
\* words; the padded blocks are compressed strictly in stream order, each
\* once; the state going into a block is the state returned for the block
\* before it; all four words are replaced together, by the incoming state
\* plus the working variables modulo 2^32; format_md5 is applied once, to
\* the state after the last block.
C10_BlockChaining ==
  /\ [](StartsAtInitialWords /\ BlocksInStreamOrder /\ FormattedOnceAtTheEnd)
  /\ [][ChainStep]_vars

\* C10's case: a digest over four chained blocks has been returned.
C10_Witness ==
  /\ pc = "returned"
  /\ Len(LogOf("compress")) = 4
  /\ Len(LogOf("format")) = 1

====
